---- MODULE Spec2Model ----
(***************************************************************************)
(* Streaming chat session of the VECTIQOR frontend: the event-stream       *)
(* decoder (api/chat.ts), the chat turn controller (hooks/useChat.ts),     *)
(* the session bootstrap (hooks/useSession.ts) and the automatic           *)
(* persistence of conversations (components/layout/AppLayout).             *)
(*                                                                         *)
(* A text is a sequence of characters.  A character of the model is one    *)
(* character of the program ("CR", "LF", "SP", ":") or an indivisible run  *)
(* of characters that holds no newline and no blank ("event:", "data:",    *)
(* an event name, a JSON text, a phrase): the decoder only concatenates    *)
(* chunks, replaces newlines, trims blanks and tests prefixes, so a run    *)
(* behaves as one character does.                                          *)
(***************************************************************************)
EXTENDS Naturals, Sequences, FiniteSets, TLC

CR == "CR"
LF == "LF"
SP == "SP"
COLON == ":"
EVENT == "event:"
DATA == "data:"

None == "none"

----------------------------------------------------------------------------
(* Bounds of the model.                                                    *)

MaxTurns == 2
MaxRecords == 2
MaxUser == 1
MaxFetches == 1
MaxLoads == 2
MaxTokens == 3

----------------------------------------------------------------------------
(* Strings.                                                                *)

IsBlank(c) == c \in {SP, LF, CR}

RECURSIVE TrimStart(_)
TrimStart(s) ==
  IF s = <<>> THEN <<>>
  ELSE IF IsBlank(Head(s)) THEN TrimStart(Tail(s)) ELSE s

RECURSIVE TrimEnd(_)
TrimEnd(s) ==
  IF s = <<>> THEN <<>>
  ELSE IF IsBlank(s[Len(s)]) THEN TrimEnd(SubSeq(s, 1, Len(s) - 1)) ELSE s

Trim(s) == TrimEnd(TrimStart(s))

StartsWith(s, c) == Len(s) >= 1 /\ s[1] = c

EndsWith2(s, c, d) == Len(s) >= 2 /\ s[Len(s) - 1] = c /\ s[Len(s)] = d

(* s.replace(/\r\n/g, '\n') *)
RECURSIVE ReplaceCRLF(_)
ReplaceCRLF(s) ==
  IF s = <<>> THEN <<>>
  ELSE IF Len(s) >= 2 /\ s[1] = CR /\ s[2] = LF
       THEN <<LF>> \o ReplaceCRLF(SubSeq(s, 3, Len(s)))
       ELSE <<s[1]>> \o ReplaceCRLF(Tail(s))

(* s.replace(/\r/g, '\n') *)
ReplaceCR(s) == [i \in 1..Len(s) |-> IF s[i] = CR THEN LF ELSE s[i]]

Normalize(s) == ReplaceCR(ReplaceCRLF(s))

(* buffer.indexOf('\n\n'), 1-based; 0 when there is none *)
IndexOfBoundary(s) ==
  LET hits == {i \in 1..(Len(s) - 1) : s[i] = LF /\ s[i + 1] = LF}
  IN IF hits = {} THEN 0 ELSE CHOOSE i \in hits : \A j \in hits : i <= j

(* block.split('\n') *)
RECURSIVE SplitLines(_)
SplitLines(s) ==
  LET hits == {i \in 1..Len(s) : s[i] = LF}
  IN IF hits = {} THEN <<s>>
     ELSE LET i == CHOOSE k \in hits : \A j \in hits : k <= j
          IN <<SubSeq(s, 1, i - 1)>> \o SplitLines(SubSeq(s, i + 1, Len(s)))

(* dataLines.join('\n') *)
RECURSIVE JoinLines(_)
JoinLines(ls) ==
  IF ls = <<>> THEN <<>>
  ELSE IF Len(ls) = 1 THEN ls[1]
  ELSE ls[1] \o <<LF>> \o JoinLines(Tail(ls))

----------------------------------------------------------------------------
(* JSON payloads.  A JSON text is one character of the wire; JsonValue     *)
(* gives what JSON.parse returns for it.  A field a payload does not hold  *)
(* reads as undefined, modelled as the empty text: the code tests these    *)
(* fields for truthiness only.                                             *)

NoFields ==
  [message |-> <<>>, text |-> <<>>, response |-> <<>>, detail |-> <<>>,
   tool_calls |-> <<>>, request_id |-> None]

JsonValue ==
  ( "{status}"  :> [NoFields EXCEPT !.message = <<"Searching">>] ) @@
  ( "{tokT}"    :> [NoFields EXCEPT !.text = <<"T">>] ) @@
  ( "{tokA}"    :> [NoFields EXCEPT !.text = <<"A">>] ) @@
  ( "{tokB}"    :> [NoFields EXCEPT !.text = <<"B">>] ) @@
  ( "{tokSp}"   :> [NoFields EXCEPT !.text = <<SP>>] ) @@
  ( "{tokCr}"   :> [NoFields EXCEPT !.text = <<"A", CR>>] ) @@
  ( "{tokLf}"   :> [NoFields EXCEPT !.text = <<LF, "B">>] ) @@
  ( "{tok0}"    :> [NoFields EXCEPT !.text = <<>>] ) @@
  ( "{finalA}"  :> [NoFields EXCEPT !.response = <<"A">>, !.tool_calls = <<"tc">>] ) @@
  ( "{final0}"  :> [NoFields EXCEPT !.response = <<>>] ) @@
  ( "{finalAB}" :> [NoFields EXCEPT !.response = <<"A", "B">>] ) @@
  ( "{finalSp}" :> [NoFields EXCEPT !.response = <<SP>>] ) @@
  ( "{finalCr}" :> [NoFields EXCEPT !.response = <<"A", CR, LF, "B">>] ) @@
  ( "{finalTr}" :> [NoFields EXCEPT !.response = <<"A">>,
                                    !.tool_calls = <<"tc-truncated">>,
                                    !.request_id = "r1"] ) @@
  ( "{err}"     :> [NoFields EXCEPT !.detail = <<"boom">>] )

(* JSON.parse: blanks between tokens are allowed, anything else around a   *)
(* complete JSON text is a syntax error.                                   *)
JsonParses(s) ==
  LET t == SelectSeq(s, LAMBDA c : ~IsBlank(c))
  IN Len(t) = 1 /\ t[1] \in DOMAIN JsonValue

JsonParse(s) == JsonValue[SelectSeq(s, LAMBDA c : ~IsBlank(c))[1]]

----------------------------------------------------------------------------
(* processBlock of sendMessageStream: one record of the stream, the text   *)
(* between two blank lines, becomes at most one event.                     *)

NoEvent == [kind |-> "ignored", json |-> None]

(* the for loop over the lines: the last "event:" line names the event,   *)
(* every "data:" line adds one line of payload                             *)
RECURSIVE EventNameOf(_, _)
EventNameOf(lines, name) ==
  IF lines = <<>> THEN name
  ELSE IF StartsWith(Head(lines), EVENT)
       THEN EventNameOf(Tail(lines), Trim(Tail(Head(lines))))
       ELSE EventNameOf(Tail(lines), name)

RECURSIVE DataLinesOf(_)
DataLinesOf(lines) ==
  IF lines = <<>> THEN <<>>
  ELSE IF StartsWith(Head(lines), EVENT) THEN DataLinesOf(Tail(lines))
  ELSE IF StartsWith(Head(lines), DATA)
       THEN <<TrimStart(Tail(Head(lines)))>> \o DataLinesOf(Tail(lines))
       ELSE DataLinesOf(Tail(lines))

EventKinds == {"status", "token", "final", "error"}

processBlockThrows(block) ==
  IF Trim(block) = <<>> \/ StartsWith(block, COLON) THEN NoEvent
  ELSE LET lines == SplitLines(block)
           eventName == EventNameOf(lines, <<"message">>)
           dataLines == DataLinesOf(lines)
           data == JoinLines(dataLines)
       IN IF dataLines = <<>> THEN NoEvent
          ELSE IF ~JsonParses(data) THEN [kind |-> "error", json |-> "{err}"]
          ELSE IF Len(eventName) = 1 /\ eventName[1] \in EventKinds
               THEN IF eventName[1] = "token" /\ JsonParse(data).text = <<>>
                    THEN NoEvent
                    ELSE [kind |-> eventName[1],
                          json |-> SelectSeq(data, LAMBDA c : ~IsBlank(c))[1]]
               ELSE NoEvent

processBlockNoSkip(block) ==
  IF Trim(block) = <<>> \/ StartsWith(block, COLON)
  THEN [kind |-> "error", json |-> "{err}"]
  ELSE LET lines == SplitLines(block)
           eventName == EventNameOf(lines, <<"message">>)
           dataLines == DataLinesOf(lines)
           data == JoinLines(dataLines)
       IN IF dataLines = <<>> THEN NoEvent
          ELSE IF ~JsonParses(data) THEN NoEvent
          ELSE IF Len(eventName) = 1 /\ eventName[1] \in EventKinds
               THEN IF eventName[1] = "token" /\ JsonParse(data).text = <<>>
                    THEN NoEvent
                    ELSE [kind |-> eventName[1],
                          json |-> SelectSeq(data, LAMBDA c : ~IsBlank(c))[1]]
               ELSE NoEvent

processBlock(block) ==
  IF Trim(block) = <<>> \/ StartsWith(block, COLON) THEN NoEvent
  ELSE LET lines == SplitLines(block)
           eventName == EventNameOf(lines, <<"message">>)
           dataLines == DataLinesOf(lines)
           data == JoinLines(dataLines)
       IN IF dataLines = <<>> THEN NoEvent
          ELSE IF ~JsonParses(data) THEN NoEvent
          ELSE IF Len(eventName) = 1 /\ eventName[1] \in EventKinds
               THEN IF eventName[1] = "token" /\ JsonParse(data).text = <<>>
                    THEN NoEvent
                    ELSE [kind |-> eventName[1],
                          json |-> SelectSeq(data, LAMBDA c : ~IsBlank(c))[1]]
               ELSE NoEvent

(* The inner while loop of the read loop: the blocks that end at a blank   *)
(* line come off the front of the buffer, in order.                        *)
RECURSIVE BlocksOf(_)
BlocksOf(buffer) ==
  LET boundary == IndexOfBoundary(buffer)
  IN IF boundary = 0 THEN <<>>
     ELSE <<SubSeq(buffer, 1, boundary - 1)>>
          \o BlocksOf(SubSeq(buffer, boundary + 2, Len(buffer)))

RECURSIVE RestOf(_)
RestOf(buffer) ==
  LET boundary == IndexOfBoundary(buffer)
  IN IF boundary = 0 THEN buffer
     ELSE RestOf(SubSeq(buffer, boundary + 2, Len(buffer)))

(* The buffer after a read: the decoded chunk appended, the newlines       *)
(* replaced, and at end of input the missing separator added.              *)
BufferAfterRead(buffer, chunk, done) ==
  LET b == Normalize(buffer \o chunk)
  IN IF done /\ Trim(b) # <<>> /\ ~EndsWith2(b, LF, LF)
     THEN b \o <<LF, LF>>
     ELSE b

----------------------------------------------------------------------------
(* Messages (types/index.ts).  An optional field that is absent is the     *)
(* empty sequence.                                                         *)

Message(role, content, trace, calls) ==
  [role |-> role, content |-> content, thinking_trace |-> trace,
   tool_calls |-> calls]

UserMessage(content) == Message("user", content, <<>>, <<>>)

ErrorPrefix == "I couldn't complete that request. "
TimedOut == <<"Request timed out. Please retry or narrow the query.">>
StreamEnded == <<"Stream ended before a final response was received">>
StreamFailed == <<"Streaming request failed">>
HttpError == <<"HTTP 500">>
NetworkError == <<"Failed to fetch">>

AssistantError(errorMessage) ==
  Message("assistant", <<ErrorPrefix>> \o errorMessage, <<>>, <<>>)

IsErrorMessage(m) ==
  m.role = "assistant" /\ Len(m.content) >= 1 /\ m.content[1] = ErrorPrefix

(* streamedText.lastIndexOf(needle), 1-based; 0 when there is none *)
LastIndexOf(hay, needle) ==
  LET hits == {i \in 1..(Len(hay) - Len(needle) + 1) :
                 SubSeq(hay, i, i + Len(needle) - 1) = needle}
  IN IF hits = {} \/ Len(needle) > Len(hay) THEN 0
     ELSE CHOOSE i \in hits : \A j \in hits : j <= i

ContentFromBuffer(response, streamedText) ==
  Normalize(IF streamedText # <<>> THEN streamedText ELSE response)

(* onFinal of useChat.send: the content and the thinking trace *)
FinalContent(response, streamedText) ==
  Normalize(IF response # <<>> THEN response ELSE streamedText)

FirstIndexOf(hay, needle) ==
  LET hits == {i \in 1..(Len(hay) - Len(needle) + 1) :
                 SubSeq(hay, i, i + Len(needle) - 1) = needle}
  IN IF hits = {} \/ Len(needle) > Len(hay) THEN 0
     ELSE CHOOSE i \in hits : \A j \in hits : i <= j

TraceBeforeFirst(finalContent, streamedText) ==
  LET trimmedFinal == Trim(finalContent)
  IN IF trimmedFinal # <<>>
     THEN LET idx == FirstIndexOf(streamedText, trimmedFinal)
          IN IF idx > 1 THEN Trim(SubSeq(streamedText, 1, idx - 1)) ELSE <<>>
     ELSE Trim(streamedText)

ThinkingTrace(finalContent, streamedText) ==
  LET trimmedFinal == Trim(finalContent)
  IN IF trimmedFinal # <<>>
     THEN LET idx == LastIndexOf(streamedText, trimmedFinal)
          IN IF idx > 1 THEN Trim(SubSeq(streamedText, 1, idx - 1)) ELSE <<>>
     ELSE Trim(streamedText)

AssistantMessage(payload, streamedText) ==
  LET finalContent == FinalContent(payload.response, streamedText)
  IN Message("assistant", finalContent,
             ThinkingTrace(finalContent, streamedText), payload.tool_calls)

----------------------------------------------------------------------------
(* The callbacks of useChat.send applied to the events of one read.  A     *)
(* context cx holds what the callbacks and processBlock read and write:    *)
(* the locals streamedText and gotFinal, the React state they set, and     *)
(* the error processBlock throws (thrown is the empty text when none).     *)

DispatchCommitsTokens(ev, cx, nextMessages) ==
  LET payload == JsonValue[ev.json]
      logged == [cx EXCEPT !.dispatched = Append(@, ev)]
  IN IF ev.kind = "token"
     THEN [logged EXCEPT
             !.streamedText = @ \o Normalize(payload.text),
             !.messages = Append(nextMessages,
                                 Message("assistant", payload.text, <<>>, <<>>)),
             !.setMessages = TRUE]
     ELSE logged

DispatchPrepends(ev, cx, nextMessages) ==
  LET payload == JsonValue[ev.json]
      logged == [cx EXCEPT !.dispatched = Append(@, ev)]
  IN IF ev.kind = "token"
     THEN [logged EXCEPT
             !.streamedText = Normalize(payload.text) \o @,
             !.streamingText = Normalize(payload.text) \o cx.streamedText]
     ELSE IF ev.kind = "final"
     THEN [logged EXCEPT
             !.statusMessage = <<>>, !.streamingText = <<>>,
             !.messages =
                Append(nextMessages, AssistantMessage(payload, cx.streamedText)),
             !.setMessages = TRUE, !.commits = @ + 1, !.gotFinal = TRUE]
     ELSE logged

Dispatch(ev, cx, nextMessages) ==
  LET payload == JsonValue[ev.json]
      logged == [cx EXCEPT !.dispatched = Append(@, ev)]
  IN CASE ev.kind = "status" ->
            IF payload.message = <<>> THEN logged
            ELSE [logged EXCEPT !.statusMessage = payload.message]
       [] ev.kind = "token" ->
            [logged EXCEPT !.streamedText = @ \o Normalize(payload.text),
                           !.streamingText =
                              cx.streamedText \o Normalize(payload.text)]
       [] ev.kind = "final" ->
            [logged EXCEPT
               !.statusMessage = <<>>,
               !.streamingText = <<>>,
               !.messages =
                  Append(nextMessages, AssistantMessage(payload, cx.streamedText)),
               !.setMessages = TRUE,
               !.commits = @ + 1,
               !.gotFinal = TRUE]
       [] ev.kind = "error" ->
            [logged EXCEPT
               !.thrown = IF payload.detail = <<>> THEN StreamFailed
                          ELSE payload.detail]

RECURSIVE ProcessBlocks(_, _, _)
ProcessBlocks(blocks, cx, nextMessages) ==
  IF blocks = <<>> \/ cx.thrown # <<>> THEN cx
  ELSE LET ev == processBlock(Head(blocks))
       IN ProcessBlocks(Tail(blocks),
                        IF ev.kind = "ignored" THEN cx
                        ELSE Dispatch(ev, cx, nextMessages),
                        nextMessages)

----------------------------------------------------------------------------
(* State.                                                                  *)
(*                                                                         *)
(* React state holds the value last set; a closure or a prop reads the     *)
(* value of the last render, kept in view.  The updates of an event        *)
(* handler are rendered before the next task runs (sync names the event    *)
(* being rendered); the updates of a promise continuation are rendered by  *)
(* a later Render, and other tasks may run before it.                      *)

VARIABLES
  messages, isSending, statusMessage, streamingText,       \* useChat
  model, activeConversationId, shareToken,                  \* AppLayout state
  activeConversationIdRef, lastAccountIdRef,                \* AppLayout refs
  selectedAccountId, isReady, error, accountsData,          \* useSession
  localStorage, initPending, isSaving,                      \* storage, mutations
  view, msgsChanged, sync,                                  \* rendering
  turns, nTurns, saves, loads, inits, store,                \* requests, server
  conv, nConv, created, nUser, nFetches, lastFail,          \* history
  activated

chatVars == <<messages, isSending, statusMessage, streamingText>>
layoutVars == <<model, activeConversationId, shareToken,
                activeConversationIdRef, lastAccountIdRef>>
sessionVars == <<selectedAccountId, isReady, error, accountsData,
                 localStorage, initPending>>
renderVars == <<view, msgsChanged, sync>>
netVars == <<turns, nTurns, saves, loads, inits, store>>
histVars == <<conv, nConv, created, nUser, nFetches, lastFail,
              activated>>

vars == <<chatVars, layoutVars, sessionVars, isSaving, renderVars, netVars,
          histVars>>

Turns == 1..MaxTurns

DefaultModel == "sonnet"
AccountIds == <<"acc1", "acc2">>

NoData == [accounts |-> <<>>, currentAccountId |-> None]

InList(id, accounts) == \E i \in 1..Len(accounts) : accounts[i] = id

(* useSession: accounts, serverCurrentId, effectiveAccountId *)
Accounts == accountsData.accounts
ServerCurrentId == accountsData.currentAccountId

EffectiveAccountId ==
  IF InList(selectedAccountId, Accounts) THEN selectedAccountId
  ELSE IF InList(ServerCurrentId, Accounts) THEN ServerCurrentId
  ELSE IF Accounts # <<>> THEN Accounts[1]
  ELSE None

(* what a render captures *)
Snapshot ==
  [messages |-> messages, isSending |-> isSending,
   accountId |-> EffectiveAccountId, isSaving |-> isSaving,
   isReady |-> isReady, isInitializing |-> initPending, model |-> model,
   accounts |-> Accounts, selectedAccountId |-> selectedAccountId,
   serverCurrentId |-> ServerCurrentId,
   activeConversationId |-> activeConversationId]

Dirty == msgsChanged \/ view # Snapshot

NoTurn ==
  [pc |-> "unused", content |-> <<>>, base |-> <<>>, next |-> <<>>,
   history |-> <<>>, account_id |-> None, model |-> None,
   text |-> <<>>, body |-> <<>>, done |-> FALSE,
   streamedText |-> <<>>, buffer |-> <<>>, gotFinal |-> FALSE,
   aborted |-> FALSE, dispatched |-> <<>>, commits |-> 0,
   outcome |-> <<>>, conv |-> 0]

InFlight(t) == turns[t].pc \in {"fetching", "reading"}

(* no save has failed since the last save was issued or the last           *)
(* conversation was loaded                                                 *)
NoFail == [failed |-> FALSE, conv |-> 0, id |-> 0]

(* a conversation saved in an earlier session *)
Stored0 ==
  [account_id |-> "acc1", model |-> "haiku", name |-> <<"Q0">>,
   messages |-> <<UserMessage(<<"Q0">>),
                  Message("assistant", <<"A0">>, <<>>, <<>>)>>,
   tool_calls |-> <<>>, conv |-> 0]

Init ==
  /\ messages = <<>> /\ isSending = FALSE
  /\ statusMessage = <<>> /\ streamingText = <<>>
  /\ model = DefaultModel /\ activeConversationId = 0 /\ shareToken = 0
  /\ activeConversationIdRef = 0 /\ lastAccountIdRef = None
  /\ selectedAccountId = None
  /\ localStorage = None
  /\ isReady = FALSE /\ error = None /\ accountsData = NoData
  /\ initPending = FALSE /\ isSaving = FALSE
  /\ view = Snapshot /\ msgsChanged = FALSE /\ sync = None
  /\ turns = [t \in Turns |-> NoTurn] /\ nTurns = 0
  /\ saves = <<>> /\ loads = <<>> /\ inits = <<>>
  /\ store = <<Stored0>>
  /\ conv = 1 /\ nConv = 1 /\ created = <<>> /\ nUser = 0 /\ nFetches = 0
  /\ lastFail = NoFail /\ activated = FALSE

----------------------------------------------------------------------------
(* A turn: useChat.send and sendMessageStream.                             *)

Questions == <<"Q1", "Q2", "Q3", "Q4">>

RemoveAt(q, i) == SubSeq(q, 1, i - 1) \o SubSeq(q, i + 1, Len(q))

Unreduced(ms) == ms

(* conversation_history.map((m) => ({role, content})) *)
Reduced(ms) == [i \in 1..Len(ms) |-> [role |-> ms[i].role, content |-> ms[i].content]]

SendAlways(v) == TRUE

(* if (isSending) return *)
SendAccepts(v) == ~v.isSending

InputIgnoresReady(v) == ~v.isSending

(* ChatInput.handleSend: disabled is !session.isReady, loading is isSending *)
InputAccepts(v) == v.isReady /\ ~v.isSending

(* ChatArea shows the suggested questions when there are no messages *)
SuggestionShown(v) == v.messages = <<>> /\ v.isReady

(* useChat.send up to its first await: the user message is appended and    *)
(* the request is on its way                                               *)
send(content) ==
  LET t == nTurns + 1
      nextMessages == Append(view.messages, UserMessage(content))
  IN /\ nTurns < MaxTurns
     /\ SendAccepts(view)
     /\ messages' = nextMessages
     /\ msgsChanged' = TRUE
     /\ isSending' = TRUE
     /\ statusMessage' = <<"Thinking...">>
     /\ streamingText' = <<>>
     /\ turns' = [turns EXCEPT ![t] =
                    [NoTurn EXCEPT !.pc = "fetching", !.content = content,
                                   !.base = view.messages, !.next = nextMessages,
                                   !.history = Reduced(view.messages),
                                   !.account_id = view.accountId,
                                   !.model = view.model, !.conv = conv]]
     /\ nTurns' = t
     /\ sync' = "send"
     /\ view' = view
     /\ UNCHANGED <<layoutVars, sessionVars, isSaving, saves, loads, inits,
                    store, histVars>>

Submit ==
  sync = None /\ InputAccepts(view) /\ send(<<Questions[nTurns + 1]>>)

Suggest ==
  sync = None /\ SuggestionShown(view) /\ send(<<Questions[nTurns + 1]>>)

AbortError == <<"AbortError">>

RethrownAsIs(err) == err

(* the catch of sendMessageStream *)
Rethrown(err) == IF err = AbortError THEN TimedOut ELSE err

HistoryRolledBack(tr, errorMessage) ==
  Append(tr.base, AssistantError(errorMessage))

(* the catch of useChat.send: what the history becomes *)
HistoryOnError(tr, errorMessage) == Append(tr.next, AssistantError(errorMessage))

FailKeepsSending(t, tr, err) ==
  /\ statusMessage' = <<>>
  /\ streamingText' = <<>>
  /\ messages' = HistoryOnError(tr, Rethrown(err))
  /\ msgsChanged' = TRUE
  /\ isSending' = isSending
  /\ turns' = [turns EXCEPT ![t] =
                 [tr EXCEPT !.pc = "settled", !.outcome = Rethrown(err),
                            !.commits = @ + 1]]

FailKeepsText(t, tr, err) ==
  /\ statusMessage' = statusMessage
  /\ streamingText' = streamingText
  /\ messages' = HistoryOnError(tr, Rethrown(err))
  /\ msgsChanged' = TRUE
  /\ isSending' = FALSE
  /\ turns' = [turns EXCEPT ![t] =
                 [tr EXCEPT !.pc = "settled", !.outcome = Rethrown(err),
                            !.commits = @ + 1]]

(* the catch and the finally of useChat.send, for the turn as tr leaves it *)
Fail(t, tr, err) ==
  LET errorMessage == Rethrown(err)
  IN /\ statusMessage' = <<>>
     /\ streamingText' = <<>>
     /\ messages' = HistoryOnError(tr, errorMessage)
     /\ msgsChanged' = TRUE
     /\ isSending' = FALSE
     /\ turns' = [turns EXCEPT ![t] =
                    [tr EXCEPT !.pc = "settled", !.outcome = errorMessage,
                               !.commits = @ + 1]]

TurnFrame ==
  UNCHANGED <<layoutVars, sessionVars, isSaving, view, sync, nTurns, saves,
              loads, inits, store, histVars>>

(* fetch resolves with an ok response; body is the text its stream will   *)
(* deliver                                                                 *)
FetchOk(t, body) ==
  /\ sync = None /\ turns[t].pc = "fetching" /\ ~turns[t].aborted
  /\ turns' = [turns EXCEPT ![t].pc = "reading", ![t].text = body,
                            ![t].body = body]
  /\ UNCHANGED <<chatVars, msgsChanged>>
  /\ TurnFrame

(* fetch rejects, or the response is not ok *)
FetchFail(t) ==
  /\ sync = None /\ turns[t].pc = "fetching" /\ ~turns[t].aborted
  /\ Fail(t, turns[t], HttpError)
  /\ TurnFrame

Context(tr) ==
  [streamedText |-> tr.streamedText, gotFinal |-> tr.gotFinal,
   statusMessage |-> statusMessage, streamingText |-> streamingText,
   messages |-> messages, setMessages |-> FALSE,
   dispatched |-> tr.dispatched, commits |-> tr.commits, thrown |-> <<>>]

EndedNever(gotFinal) == FALSE

(* sendMessageStream after the read loop: if (!gotFinal) throw *)
EndedEarly(gotFinal) == ~gotFinal

(* one pass of the read loop: the chunk comes off the body, the buffer     *)
(* grows by it, the blocks it completes are processed; at done the loop    *)
(* is left                                                                 *)
Read(t, chunk, done) ==
  LET tr == turns[t]
      buffer == BufferAfterRead(tr.buffer, chunk, done)
      cx == ProcessBlocks(BlocksOf(buffer), Context(tr), tr.next)
      tr1 == [tr EXCEPT !.body = SubSeq(@, Len(chunk) + 1, Len(@)),
                        !.done = done,
                        !.buffer = RestOf(buffer),
                        !.streamedText = cx.streamedText,
                        !.gotFinal = cx.gotFinal,
                        !.dispatched = cx.dispatched,
                        !.commits = cx.commits]
  IN /\ tr.pc = "reading" /\ ~tr.aborted
     /\ IF cx.thrown # <<>> THEN Fail(t, tr1, cx.thrown)
        ELSE IF done /\ EndedEarly(cx.gotFinal) THEN Fail(t, tr1, StreamEnded)
        ELSE /\ statusMessage' = IF done THEN <<>> ELSE cx.statusMessage
             /\ streamingText' = IF done THEN <<>> ELSE cx.streamingText
             /\ messages' = cx.messages
             /\ msgsChanged' = (msgsChanged \/ cx.setMessages)
             /\ isSending' = IF done THEN FALSE ELSE isSending
             /\ turns' = [turns EXCEPT ![t] =
                            IF done
                            THEN [tr1 EXCEPT !.pc = "settled",
                                             !.outcome = <<"answered">>]
                            ELSE tr1]

(* one record of the stream, its lines ended by nl *)
Rec(kind, json, nl) ==
  <<EVENT, SP, kind>> \o nl \o <<DATA, SP, json>> \o nl \o nl

Newlines == {<<LF>>, <<CR, LF>>, <<CR>>}

RecordMenu ==
  {<<"status", "{status}">>, <<"token", "{tokT}">>,
   <<"final", "{finalA}">>, <<"error", "{err}">>}

RECURSIVE TextOf(_, _)
TextOf(recs, nl) ==
  IF recs = <<>> THEN <<>>
  ELSE Rec(Head(recs)[1], Head(recs)[2], nl) \o TextOf(Tail(recs), nl)

(* the texts of at most MaxRecords records, in each newline convention *)
WireTexts ==
  {TextOf(recs, nl) :
     recs \in UNION {[1..n -> RecordMenu] : n \in 0..MaxRecords},
     nl \in Newlines}

(* the answers of a server that sends one terminal record *)
Responses == {Rec("final", "{finalA}", <<LF>>), Rec("error", "{err}", <<LF>>)}

(* the requests turn t has sent: sendMessageStream fetches                 *)
(* /api/chat/stream, and no callback of useChat.send sends a request       *)
RequestsOf(t) ==
  IF turns[t].pc = "unused" THEN <<>> ELSE <<"POST /api/chat/stream">>

(* reader.read() resolves with the first n characters of what is left *)
Deliver(t, n) ==
  /\ sync = None /\ n \in 1..Len(turns[t].body)
  /\ Read(t, SubSeq(turns[t].body, 1, n), FALSE)
  /\ TurnFrame

(* the body arrives in one piece *)
ServerChunk(t) == Deliver(t, Len(turns[t].body))

(* the body arrives in pieces of any size *)
WireChunk(t) == \E n \in 1..Len(turns[t].body) : Deliver(t, n)

(* the channel closes: reader.read() resolves with done *)
ServerClose(t) ==
  /\ sync = None /\ turns[t].body = <<>>
  /\ Read(t, <<>>, TRUE)
  /\ TurnFrame

(* the connection breaks while the body is read *)
ReadError(t) ==
  /\ sync = None /\ turns[t].pc = "reading" /\ ~turns[t].aborted
  /\ Fail(t, turns[t], NetworkError)
  /\ TurnFrame

CHAT_REQUEST_TIMEOUT_MS == 560000

(* startAbortTimer: the timer fires and aborts the request *)
AbortTimer(t) ==
  /\ sync = None /\ CHAT_REQUEST_TIMEOUT_MS > 0
  /\ InFlight(t) /\ ~turns[t].aborted
  /\ turns' = [turns EXCEPT ![t].aborted = TRUE]
  /\ UNCHANGED <<chatVars, msgsChanged>>
  /\ TurnFrame

(* the pending fetch or read rejects with the AbortError *)
AbortRejects(t) ==
  /\ sync = None /\ InFlight(t) /\ turns[t].aborted
  /\ Fail(t, turns[t], AbortError)
  /\ TurnFrame

----------------------------------------------------------------------------
(* Rendering: AppLayout and its hooks run again, and the effects whose     *)
(* dependencies changed run after it, in the order of their declaration.   *)

NameLimit == 60

Take(q, n) == SubSeq(q, 1, IF Len(q) < n THEN Len(q) ELSE n)

HasAssistant(ms) == \E i \in 1..Len(ms) : ms[i].role = "assistant"

FirstUser(ms) ==
  LET hits == {i \in 1..Len(ms) : ms[i].role = "user"}
  IN IF hits = {} THEN 0 ELSE CHOOSE i \in hits : \A j \in hits : i <= j

NameUncut(ms) ==
  IF FirstUser(ms) = 0 THEN <<"Conversation">>
  ELSE ms[FirstUser(ms)].content

NameOf(ms) ==
  IF FirstUser(ms) = 0 THEN <<"Conversation">>
  ELSE Take(ms[FirstUser(ms)].content, NameLimit)

RECURSIVE FlatToolCalls(_)
FlatToolCalls(ms) ==
  IF ms = <<>> THEN <<>> ELSE Head(ms).tool_calls \o FlatToolCalls(Tail(ms))

SavedIdUnset(v, ref) == 0

(* the identifier the auto-save sends: the ref, not the rendered state *)
SavedId(v, ref) == ref

SaveRequest(v, ref) ==
  [conversation_id |-> SavedId(v, ref), name |-> NameOf(v.messages),
   account_id |-> v.accountId, model |-> v.model, messages |-> v.messages,
   tool_calls |-> FlatToolCalls(v.messages), conv |-> conv,
   after |-> lastFail]

(* useSession, the auto-init effect: the account it activates *)
ResolveAccount(v) ==
  IF InList(v.selectedAccountId, v.accounts) THEN v.selectedAccountId
  ELSE IF InList(v.serverCurrentId, v.accounts) THEN v.serverCurrentId
  ELSE v.accounts[1]

AutoInitRuns(v) ==
  /\ Len(v.accounts) # Len(view.accounts)
  /\ ~(Len(v.accounts) = 0 \/ v.isReady \/ v.isInitializing)

SwitchOfSaved(v) ==
  v.accountId # None /\ lastAccountIdRef # v.accountId
  /\ v.activeConversationId # 0

SwitchOnChange(v) == v.accountId # None /\ v.accountId # view.accountId

(* AppLayout, the account-switch effect *)
SwitchDetected(v) == v.accountId # None /\ lastAccountIdRef # v.accountId

AutoSaveIgnoresPending(v) ==
  msgsChanged /\ ~(~HasAssistant(v.messages) \/ v.accountId = None)

(* AppLayout, the auto-save effect *)
AutoSaveRuns(v) ==
  msgsChanged /\ ~(~HasAssistant(v.messages) \/ v.accountId = None \/ v.isSaving)

Render ==
  LET v == Snapshot
  IN /\ sync # None \/ Dirty
     /\ view' = v
     \* useSession: auto-init when the accounts load
     /\ IF AutoInitRuns(v)
        THEN /\ selectedAccountId' = ResolveAccount(v)
             /\ inits' = Append(inits, ResolveAccount(v))
             /\ initPending' = TRUE
        ELSE UNCHANGED <<selectedAccountId, inits, initPending>>
     \* keep the ref in sync with the state
     /\ activeConversationIdRef' = v.activeConversationId
     \* switching accounts starts a fresh conversation
     /\ IF SwitchDetected(v)
        THEN /\ lastAccountIdRef' = v.accountId
             /\ messages' = <<>>
             /\ statusMessage' = <<>>
             /\ streamingText' = <<>>
             /\ activeConversationId' = 0
             /\ shareToken' = 0
             /\ conv' = nConv + 1 /\ nConv' = nConv + 1
        ELSE UNCHANGED <<lastAccountIdRef, messages, statusMessage,
                         streamingText, activeConversationId, shareToken,
                         conv, nConv>>
     /\ msgsChanged' = SwitchDetected(v)
     \* auto-save after every assistant response
     /\ IF AutoSaveRuns(v)
        THEN /\ saves' = Append(saves, SaveRequest(v, activeConversationIdRef'))
             /\ isSaving' = TRUE
             /\ lastFail' = NoFail
        ELSE UNCHANGED <<saves, isSaving, lastFail>>
     /\ UNCHANGED <<isSending, model, isReady, error, accountsData,
                    localStorage, turns, nTurns, loads, store, created,
                    nUser, nFetches, activated>>
     \* an event handler's render goes on until nothing is left to render
     /\ sync' = IF Dirty' THEN sync ELSE None

----------------------------------------------------------------------------
(* The user's actions on the page.                                         *)

(* handleNewConversation *)
NewConversation ==
  /\ sync = None /\ nUser < MaxUser
  /\ messages' = <<>> /\ statusMessage' = <<>> /\ streamingText' = <<>>
  /\ msgsChanged' = TRUE
  /\ activeConversationId' = 0 /\ shareToken' = 0
  /\ conv' = nConv + 1 /\ nConv' = nConv + 1 /\ nUser' = nUser + 1
  /\ sync' = "new"
  /\ UNCHANGED <<isSending, model, activeConversationIdRef, lastAccountIdRef,
                 sessionVars, isSaving, view, netVars, created, nFetches,
                 lastFail, activated>>

SelectWhilePending(a) ==
  /\ sync = None /\ nUser < MaxUser
  /\ InList(a, view.accounts) /\ a # view.accountId
  /\ selectedAccountId' = a
  /\ isReady' = FALSE
  /\ inits' = Append(inits, a)
  /\ initPending' = TRUE
  /\ nUser' = nUser + 1
  /\ sync' = "select"
  /\ UNCHANGED <<chatVars, layoutVars, error, accountsData, localStorage,
                 isSaving, view, msgsChanged, turns, nTurns, saves, loads,
                 store, conv, nConv, created, nFetches,
                 lastFail, activated>>

(* AccountSelector and useSession.selectAccount: the Select offers the     *)
(* rendered accounts, reports a change of its value only, and is disabled  *)
(* while an activation is pending                                          *)
SelectAccount(a) ==
  /\ sync = None /\ nUser < MaxUser
  /\ ~view.isInitializing /\ InList(a, view.accounts) /\ a # view.accountId
  /\ selectedAccountId' = a
  /\ isReady' = FALSE
  /\ inits' = Append(inits, a)
  /\ initPending' = TRUE
  /\ nUser' = nUser + 1
  /\ sync' = "select"
  /\ UNCHANGED <<chatVars, layoutVars, error, accountsData, localStorage,
                 isSaving, view, msgsChanged, turns, nTurns, saves, loads,
                 store, conv, nConv, created, nFetches,
                 lastFail, activated>>

(* handleSelectConversation up to its await: the list holds the            *)
(* conversations saved under the rendered account                          *)
SelectConversation(id) ==
  /\ sync = None /\ nUser < MaxUser
  /\ id \in 1..Len(store) /\ store[id].account_id = view.accountId
  /\ loads' = Append(loads, id)
  /\ nUser' = nUser + 1
  /\ UNCHANGED <<chatVars, layoutVars, sessionVars, isSaving, renderVars,
                 turns, nTurns, saves, inits, store, conv, nConv, created,
                 nFetches,
                 lastFail, activated>>

(* getConversation answers: the rest of handleSelectConversation *)
LoadOk(i) ==
  /\ sync = None /\ i \in 1..Len(loads)
  /\ messages' = store[loads[i]].messages
  /\ msgsChanged' = TRUE
  /\ activeConversationId' = loads[i]
  /\ shareToken' = loads[i]
  /\ model' = store[loads[i]].model
  /\ loads' = RemoveAt(loads, i)
  /\ conv' = store[loads[i]].conv
  /\ lastFail' = NoFail
  /\ UNCHANGED <<isSending, statusMessage, streamingText,
                 activeConversationIdRef, lastAccountIdRef, sessionVars,
                 isSaving, view, sync, turns, nTurns, saves, inits, store,
                 nConv, created, nUser, nFetches, activated>>

LoadFail(i) ==
  /\ sync = None /\ i \in 1..Len(loads)
  /\ loads' = RemoveAt(loads, i)
  /\ UNCHANGED <<chatVars, layoutVars, sessionVars, isSaving, renderVars,
                 turns, nTurns, saves, inits, store, histVars>>

----------------------------------------------------------------------------
(* Persistence: saveConversation and the server behind it.                 *)

Saved(req) ==
  [account_id |-> req.account_id, model |-> req.model, name |-> req.name,
   messages |-> req.messages, tool_calls |-> req.tool_calls,
   conv |-> req.conv]

(* POST /conversations/save answers; the then of the auto-save effect *)
SaveOk(i) ==
  LET req == saves[i]
      id == IF req.conversation_id = 0 THEN Len(store) + 1
            ELSE req.conversation_id
  IN /\ sync = None /\ i \in 1..Len(saves)
     /\ store' = IF req.conversation_id = 0 THEN Append(store, Saved(req))
                 ELSE [store EXCEPT ![id] = Saved(req)]
     /\ created' = IF req.conversation_id = 0 THEN Append(created, req.conv)
                   ELSE created
     /\ activeConversationId' = id
     /\ shareToken' = id
     /\ saves' = RemoveAt(saves, i)
     /\ isSaving' = IF i = Len(saves) THEN FALSE ELSE isSaving
     /\ UNCHANGED <<chatVars, model, activeConversationIdRef, lastAccountIdRef,
                    sessionVars, renderVars, turns, nTurns, loads, inits,
                    conv, nConv, nUser, nFetches,
                 lastFail, activated>>

(* the save fails: a notice is shown, the effect ignores the rejection *)
SaveFail(i) ==
  /\ sync = None /\ i \in 1..Len(saves)
  /\ saves' = RemoveAt(saves, i)
  /\ isSaving' = IF i = Len(saves) THEN FALSE ELSE isSaving
  /\ lastFail' = [failed |-> TRUE, conv |-> conv, id |-> activeConversationId]
  /\ UNCHANGED <<chatVars, layoutVars, sessionVars, renderVars, turns,
                 nTurns, loads, inits, store, conv, nConv, created, nUser,
                 nFetches, activated>>

----------------------------------------------------------------------------
(* Session bootstrap: the accounts query and the activation mutation.      *)

AccountsResponses ==
  {[accounts |-> AccountIds, currentAccountId |-> "acc1"]}

(* GET /accounts answers with d; the query's observers render at once *)
Loaded(d) ==
  /\ sync = None
  /\ accountsData' = d
  /\ nFetches' = nFetches + 1
  /\ sync' = "accounts"
  /\ UNCHANGED <<chatVars, layoutVars, selectedAccountId, isReady, error,
                 localStorage, initPending, isSaving, view, msgsChanged,
                 netVars, conv, nConv, created, nUser, lastFail,
                 activated>>

AccountsLoaded ==
  /\ nFetches < MaxFetches
  /\ \E d \in AccountsResponses : Loaded(d)

(* POST /switch-account answers: onSuccess of initMutation *)
ActivationOk(i) ==
  /\ sync = None /\ i \in 1..Len(inits)
  /\ localStorage' = inits[i]
  /\ isReady' = TRUE
  /\ error' = None
  /\ inits' = RemoveAt(inits, i)
  /\ initPending' = IF i = Len(inits) THEN FALSE ELSE initPending
  /\ activated' = TRUE
  /\ UNCHANGED <<chatVars, layoutVars, selectedAccountId, accountsData,
                 isSaving, renderVars, turns, nTurns, saves, loads, store,
                 conv, nConv, created, nUser, nFetches, lastFail>>

ActivationFailPersists(i) ==
  /\ sync = None /\ i \in 1..Len(inits)
  /\ error' = "activation failed"
  /\ isReady' = FALSE
  /\ localStorage' = inits[i]
  /\ inits' = RemoveAt(inits, i)
  /\ initPending' = IF i = Len(inits) THEN FALSE ELSE initPending
  /\ UNCHANGED <<chatVars, layoutVars, selectedAccountId, accountsData,
                 isSaving, renderVars, turns, nTurns, saves, loads, store,
                 histVars>>

(* onError of initMutation *)
ActivationFail(i) ==
  /\ sync = None /\ i \in 1..Len(inits)
  /\ error' = "activation failed"
  /\ isReady' = FALSE
  /\ inits' = RemoveAt(inits, i)
  /\ initPending' = IF i = Len(inits) THEN FALSE ELSE initPending
  /\ UNCHANGED <<chatVars, layoutVars, selectedAccountId, accountsData,
                 localStorage, isSaving, renderVars, turns, nTurns, saves,
                 loads, store, histVars>>

----------------------------------------------------------------------------

Next ==
  \/ Submit
  \/ Suggest
  \/ Render
  \/ NewConversation
  \/ \E a \in {AccountIds[i] : i \in 1..Len(AccountIds)} : SelectAccount(a)
  \/ \E id \in 1..Len(store) : SelectConversation(id)
  \/ \E i \in 1..Len(loads) : LoadOk(i)
  \/ \E i \in 1..Len(loads) : LoadFail(i)
  \/ \E i \in 1..Len(saves) : SaveOk(i)
  \/ \E i \in 1..Len(saves) : SaveFail(i)
  \/ AccountsLoaded
  \/ \E i \in 1..Len(inits) : ActivationOk(i)
  \/ \E i \in 1..Len(inits) : ActivationFail(i)
  \/ \E t \in Turns : \E body \in Responses : FetchOk(t, body)
  \/ \E t \in Turns : FetchFail(t)
  \/ \E t \in Turns : ServerChunk(t)
  \/ \E t \in Turns : ServerClose(t)
  \/ \E t \in Turns : ReadError(t)

Spec == Init /\ [][Next]_vars

----------------------------------------------------------------------------
(* The stream of one turn, character by character.  The session is the     *)
(* one Spec reaches when the first question has been answered and saved;   *)
(* the next turn's response is any text of WireTexts, cut into chunks at   *)
(* any place.                                                              *)

Answer1 == Message("assistant", <<"A">>, <<>>, <<"tc">>)

History1 == <<UserMessage(<<"Q1">>), Answer1>>

Stored1 ==
  [account_id |-> "acc1", model |-> DefaultModel, name |-> <<"Q1">>,
   messages |-> History1, tool_calls |-> <<"tc">>, conv |-> 2]

Turn1 ==
  [NoTurn EXCEPT
     !.pc = "settled", !.content = <<"Q1">>,
     !.next = <<UserMessage(<<"Q1">>)>>,
     !.account_id = "acc1", !.model = DefaultModel,
     !.text = Rec("final", "{finalA}", <<LF>>), !.done = TRUE,
     !.gotFinal = TRUE,
     !.dispatched = <<[kind |-> "final", json |-> "{finalA}"]>>,
     !.commits = 1, !.outcome = <<"answered">>, !.conv = 2]

InitStream ==
  /\ messages = History1 /\ isSending = FALSE
  /\ statusMessage = <<>> /\ streamingText = <<>>
  /\ model = DefaultModel /\ activeConversationId = 2 /\ shareToken = 2
  /\ activeConversationIdRef = 2 /\ lastAccountIdRef = "acc1"
  /\ selectedAccountId = "acc1" /\ localStorage = "acc1"
  /\ isReady = TRUE /\ error = None
  /\ accountsData = [accounts |-> AccountIds, currentAccountId |-> "acc1"]
  /\ initPending = FALSE /\ isSaving = FALSE
  /\ view = Snapshot /\ msgsChanged = FALSE /\ sync = None
  /\ turns = [t \in Turns |-> IF t = 1 THEN Turn1 ELSE NoTurn] /\ nTurns = 1
  /\ saves = <<>> /\ loads = <<>> /\ inits = <<>>
  /\ store = <<Stored0, Stored1>>
  /\ conv = 2 /\ nConv = 2 /\ created = <<2>> /\ nUser = 0 /\ nFetches = 1
  /\ lastFail = NoFail /\ activated = TRUE

NextStream ==
  \/ Submit
  \/ Render
  \/ \E t \in Turns : \E body \in WireTexts : FetchOk(t, body)
  \/ \E t \in Turns : FetchFail(t)
  \/ \E t \in Turns : WireChunk(t)
  \/ \E t \in Turns : ServerClose(t)
  \/ \E t \in Turns : ReadError(t)
  \/ \E t \in Turns : AbortTimer(t)
  \/ \E t \in Turns : AbortRejects(t)

SpecStream == InitStream /\ [][NextStream]_vars

(* TLC refutes this under Spec: the session the stream starts from is one  *)
(* the program reaches                                                     *)
StreamStartUnreached == ~InitStream

----------------------------------------------------------------------------
(* The answer of one turn, record by record: any tokens of TokenMenu, then *)
(* one final event of FinalMenu.                                           *)

TokenMenu == {"{tokT}", "{tokA}", "{tokB}", "{tokSp}"}

FinalMenu ==
  {"{finalA}", "{finalAB}", "{final0}", "{finalSp}", "{finalTr}", "{finalCr}"}

AnswerTexts ==
  {TextOf([i \in 1..Len(toks) |-> <<"token", toks[i]>>], <<LF>>)
     \o Rec("final", fin, <<LF>>) :
     toks \in UNION {[1..n -> TokenMenu] : n \in 0..MaxTokens},
     fin \in FinalMenu}

NextAnswer ==
  \/ Submit
  \/ Render
  \/ \E t \in Turns : \E body \in AnswerTexts : FetchOk(t, body)
  \/ \E t \in Turns : ServerChunk(t)
  \/ \E t \in Turns : ServerClose(t)

SpecAnswer == InitStream /\ [][NextAnswer]_vars

----------------------------------------------------------------------------
(* The bootstrap of the session.  The page opens with any earlier choice   *)
(* in localStorage; GET /accounts answers, and answers again when the      *)
(* query refetches, with any list of accounts and any current account.     *)

BootIds == <<"acc1", "acc2", "acc3">>

BootIdSet == {BootIds[i] : i \in 1..Len(BootIds)}

ListOf(S) == SelectSeq(BootIds, LAMBDA a : a \in S)

BootResponses ==
  {[accounts |-> ListOf(S), currentAccountId |-> c] :
     S \in SUBSET BootIdSet, c \in BootIdSet \cup {None}}

InitBoot ==
  /\ messages = <<>> /\ isSending = FALSE
  /\ statusMessage = <<>> /\ streamingText = <<>>
  /\ model = DefaultModel /\ activeConversationId = 0 /\ shareToken = 0
  /\ activeConversationIdRef = 0 /\ lastAccountIdRef = None
  /\ localStorage \in BootIdSet \cup {None}
  \* useState(() => localStorage.getItem('vectiqor_last_account'))
  /\ selectedAccountId = localStorage
  /\ isReady = FALSE /\ error = None /\ accountsData = NoData
  /\ initPending = FALSE /\ isSaving = FALSE
  /\ view = Snapshot /\ msgsChanged = FALSE /\ sync = None
  /\ turns = [t \in Turns |-> NoTurn] /\ nTurns = 0
  /\ saves = <<>> /\ loads = <<>> /\ inits = <<>>
  /\ store = <<Stored0>>
  /\ conv = 1 /\ nConv = 1 /\ created = <<>> /\ nUser = 0 /\ nFetches = 0
  /\ lastFail = NoFail /\ activated = FALSE

AccountsReloaded ==
  /\ nFetches < MaxLoads
  /\ \E d \in BootResponses : Loaded(d)

NextBoot ==
  \/ AccountsReloaded
  \/ Render
  \/ Submit
  \/ Suggest
  \/ \E a \in BootIdSet : SelectAccount(a)
  \/ \E i \in 1..Len(inits) : ActivationOk(i)
  \/ \E i \in 1..Len(inits) : ActivationFail(i)

SpecBoot == InitBoot /\ [][NextBoot]_vars

----------------------------------------------------------------------------
(* Properties.                                                             *)

Terminal(ev) == ev.kind \in {"final", "error"}

NoTerminal(evs) == \A i \in 1..Len(evs) : ~Terminal(evs[i])

IsPrefix(p, q) == Len(p) <= Len(q) /\ SubSeq(q, 1, Len(p)) = p

Last(q) == q[Len(q)]

(* C1: at most one turn is in flight at any time.  A turn starts only in  *)
(* send, so a submission made while a turn is in flight appends no user    *)
(* message and sends no request.                                           *)
SingleFlight ==
  \A t1, t2 \in Turns : InFlight(t1) /\ InFlight(t2) => t1 = t2

(* a turn is in flight and the page shows the suggested questions: a      *)
(* click on one reaches send, which refuses it                             *)
SingleFlightWitness ==
  /\ sync = None /\ nTurns < MaxTurns
  /\ \E t \in Turns : InFlight(t)
  /\ SuggestionShown(view) /\ view.isSending

(* C2: a turn makes at most one update that appends an assistant message, *)
(* and when it has settled the history is the history at submit, the       *)
(* user message and one assistant message.                                 *)
CommitsOnce ==
  \A t \in Turns :
    /\ turns[t].commits <= 1
    /\ (t = nTurns /\ turns[t].pc = "settled") =>
         /\ Len(messages) = Len(turns[t].base) + 2
         /\ SubSeq(messages, 1, Len(turns[t].base) + 1) = turns[t].next
         /\ Last(messages).role = "assistant"

(* what sendMessageStream dispatches when the text arrives as one chunk   *)
(* and the channel then closes                                             *)
Unsplit(text) ==
  LET cx0 == [streamedText |-> <<>>, gotFinal |-> FALSE,
              statusMessage |-> <<>>, streamingText |-> <<>>,
              messages |-> <<>>, setMessages |-> FALSE, dispatched |-> <<>>,
              commits |-> 0, thrown |-> <<>>]
      b1 == BufferAfterRead(<<>>, text, FALSE)
      cx1 == ProcessBlocks(BlocksOf(b1), cx0, <<>>)
      b2 == BufferAfterRead(RestOf(b1), <<>>, TRUE)
  IN IF cx1.thrown # <<>> THEN cx1.dispatched
     ELSE ProcessBlocks(BlocksOf(b2), cx1, <<>>).dispatched

(* C3: however the text of a response is cut into chunks, the events      *)
(* dispatched so far are the first events of the unsplit text, and when    *)
(* the channel has closed they are all of them, in order.                  *)
ChunkInvariance ==
  \A t \in Turns :
    /\ IsPrefix(turns[t].dispatched, Unsplit(turns[t].text))
    /\ turns[t].done => turns[t].dispatched = Unsplit(turns[t].text)

(* C4: a logical conversation creates at most one record, its first save  *)
(* carries no identifier, and a save that carries an identifier carries    *)
(* the one of the record that conversation created or was loaded from.     *)
SaveReusesId ==
  /\ \A i, j \in 1..Len(created) : created[i] = created[j] => i = j
  /\ \A i \in 1..Len(saves) :
       IF saves[i].conversation_id = 0
       THEN \A k \in 1..Len(store) : store[k].conv # saves[i].conv
       ELSE store[saves[i].conversation_id].conv = saves[i].conv

EarlyEndIsError ==
  \A t \in Turns :
    (turns[t].done /\ NoTerminal(turns[t].dispatched)) =>
      /\ turns[t].pc = "settled"
      /\ turns[t].outcome = StreamEnded
      /\ t = nTurns => messages = Append(turns[t].next, AssistantError(StreamEnded))

(* the channel closed after a status and a token event *)
EarlyEndWitness ==
  \E t \in Turns :
    /\ turns[t].done /\ Len(turns[t].dispatched) = 2
    /\ NoTerminal(turns[t].dispatched)
    /\ IsErrorMessage(Last(messages))

Failures ==
  {HttpError, NetworkError, StreamEnded, StreamFailed, TimedOut, <<"boom">>}

(* C7: a turn that failed leaves the history at submit, the user message  *)
(* and one error message that names the failure; the streaming text and    *)
(* the status are cleared and the sending flag is reset.                   *)
FailureKeepsHistory ==
  \A t \in Turns :
    (t = nTurns /\ turns[t].pc = "settled" /\ turns[t].outcome # <<"answered">>) =>
      /\ turns[t].outcome \in Failures
      /\ messages = turns[t].base
                      \o <<UserMessage(turns[t].content),
                           AssistantError(turns[t].outcome)>>
      /\ streamingText = <<>> /\ statusMessage = <<>> /\ ~isSending

(* an error event arrived after a token, with a history before the turn *)
FailureWitness ==
  \E t \in Turns :
    /\ t = nTurns /\ turns[t].pc = "settled" /\ turns[t].outcome = <<"boom">>
    /\ turns[t].streamedText # <<>> /\ turns[t].base # <<>>
    /\ Len(messages) = Len(turns[t].base) + 2

(* C8: no event is dispatched after a final or an error event.            *)
StopsAtTerminal ==
  \A t \in Turns :
    \A i \in 1..(Len(turns[t].dispatched) - 1) : ~Terminal(turns[t].dispatched[i])

(* C9: once a final event committed the answer of a turn, the answer      *)
(* stays the last message of that turn: no error message replaces it.      *)
CommitSurvives ==
  \A t \in Turns :
    (t = nTurns /\ turns[t].gotFinal) =>
      /\ Len(messages) = Len(turns[t].next) + 1
      /\ ~IsErrorMessage(Last(messages))

----------------------------------------------------------------------------
(* Session bootstrap.                                                      *)

(* a step in which the auto-init effect, not the user, issues an           *)
(* activation                                                              *)
AutoActivation == Len(inits') > Len(inits) /\ nUser' = nUser

(* C11: whenever the scope is resolved automatically for a non-empty       *)
(* list, the activated scope is the choice persisted in localStorage if    *)
(* the list holds it, otherwise the current scope the server reports if    *)
(* the list holds it, otherwise the first entry of the list; it is always  *)
(* a member of the list.                                                   *)
ResolutionPriority ==
  [][AutoActivation =>
       LET r == inits'[Len(inits')]
       IN /\ Accounts # <<>>
          /\ InList(r, Accounts)
          /\ r = IF InList(localStorage, Accounts) THEN localStorage
                 ELSE IF InList(ServerCurrentId, Accounts) THEN ServerCurrentId
                 ELSE Accounts[1]]_vars

(* C12: after a failed activation the session is not ready, the error is   *)
(* shown, and while it is shown (no activation has succeeded since) only   *)
(* an explicit selection by the user issues an activation.                 *)
NoAutoRetry ==
  /\ [](error # None => ~isReady)
  /\ [][error # None => ~AutoActivation]_vars

(* C13: a turn starts only while the session is ready: the last            *)
(* activation has succeeded, none is pending and none has failed since.    *)
ReadyGatesTurns ==
  [][nTurns' > nTurns =>
       isReady /\ inits = <<>> /\ error = None]_vars

(* a turn was started for the account the user switched to *)
ReadyGatesWitness ==
  /\ nTurns > 0 /\ turns[1].account_id = "acc2" /\ localStorage = "acc2"

(* C18: the auto-init effect issues an activation only when the list is    *)
(* not empty, no activation is pending and none has succeeded in this      *)
(* session; after a success it never issues one again.                     *)
AutoOnlyBeforeSuccess ==
  [][AutoActivation =>
       Accounts # <<>> /\ inits = <<>> /\ ~activated]_vars

(* the user selects a scope in this step *)
ExplicitSwitch == Len(inits') > Len(inits) /\ nUser' > nUser

(* an activation call returns with success in this step *)
ActivationSucceeds == Len(inits') < Len(inits) /\ error' = None

(* C19: an explicit switch sets the session not ready as it issues the     *)
(* activation of the selected scope; the session is not ready while an     *)
(* activation is pending and becomes ready only when an activation         *)
(* succeeds; then the scope in localStorage is the activated one, which    *)
(* is the selected one; localStorage is written by a success only.         *)
SwitchKeepsUnready ==
  /\ [](inits # <<>> => ~isReady)
  /\ [](isReady => localStorage = selectedAccountId)
  /\ [][ExplicitSwitch =>
          ~isReady' /\ inits'[Len(inits')] = selectedAccountId']_vars
  /\ [][ActivationSucceeds => isReady' /\ localStorage' = inits[1]]_vars
  /\ [][isReady' /\ ~isReady => ActivationSucceeds]_vars
  /\ [][localStorage' # localStorage => ActivationSucceeds]_vars

(* the user switched from acc1 to acc2 and the activation succeeded *)
SwitchWitness ==
  /\ nUser = 1 /\ nFetches = 1 /\ isReady /\ view.isReady
  /\ localStorage = "acc2" /\ selectedAccountId = "acc2"
  /\ lastAccountIdRef = "acc2"

----------------------------------------------------------------------------
(* Persistence.                                                            *)

(* C14: at most one save request is in flight at any time.                 *)
OneSaveInFlight == Len(saves) <= 1

(* the history changed while a save was pending, the change has been       *)
(* rendered, and the save is still the only one                            *)
OneSaveWitness ==
  /\ Len(saves) = 1 /\ sync = None /\ ~Dirty
  /\ HasAssistant(messages) /\ messages # saves[1].messages
  /\ conv = saves[1].conv

(* the history is the one of the saved conversation, possibly continued *)
IsLoaded(ms) == IsPrefix(Stored0.messages, ms)

(* C15: a load is atomic.  While the saved conversation is the one on the  *)
(* page, the history, the identifier, the share token and the model are    *)
(* the ones of its record; every render sees the loaded history with the   *)
(* loaded identifier and no other history with it, and so does every save  *)
(* request, whose identifier is read from the ref.                         *)
LoadAtomic ==
  /\ conv = Stored0.conv =>
       /\ IsLoaded(messages) /\ activeConversationId = 1
       /\ shareToken = 1 /\ model = Stored0.model
  /\ IsLoaded(view.messages) <=> view.activeConversationId = 1
  /\ \A i \in 1..Len(saves) :
       IsLoaded(saves[i].messages) <=> saves[i].conversation_id = 1

(* C16: a failed save changes nothing but the pending flag of the save:    *)
(* the history, the identifier, the share token and the state of the turn  *)
(* are as before, so submissions are accepted as before; and the next save *)
(* of the conversation supplies the identifier known when the save failed. *)
SaveFailureHarmless ==
  /\ [](\A i \in 1..Len(saves) :
         (saves[i].after.failed /\ saves[i].after.conv = saves[i].conv)
           => saves[i].conversation_id = saves[i].after.id)
  /\ [][(lastFail'.failed /\ Len(saves') < Len(saves)) =>
          /\ UNCHANGED <<chatVars, layoutVars, sessionVars, turns, conv>>
          /\ (saves' = <<>> => ~isSaving')]_vars

(* the save of a loaded conversation failed, the next turn was accepted    *)
(* and answered, and its save supplies the identifier of the record        *)
SaveFailureWitness ==
  \E i \in 1..Len(saves) :
    /\ saves[i].after.failed /\ saves[i].after.id = 1
    /\ saves[i].conversation_id = 1 /\ Len(saves[i].messages) > 2

----------------------------------------------------------------------------
(* The assistant message of a final event.                                 *)

(* the final event of turn t has been applied and its message is the last  *)
(* of the history                                                          *)
Committed(t) ==
  /\ t = nTurns /\ turns[t].gotFinal /\ turns[t].commits = 1
  /\ messages # <<>> /\ Last(messages).role = "assistant"

Occurs(buf, c, i) ==
  i + Len(c) - 1 <= Len(buf) /\ SubSeq(buf, i, i + Len(c) - 1) = c

Found(buf, c) == \E i \in 1..Len(buf) : Occurs(buf, c, i)

(* the part of buf strictly before the last occurrence of c *)
BeforeLast(buf, c) ==
  LET i == CHOOSE i \in 1..Len(buf) :
             Occurs(buf, c, i) /\ \A j \in (i + 1)..Len(buf) : ~Occurs(buf, c, j)
  IN SubSeq(buf, 1, i - 1)

(* C17 as stated: with a content that is not blank, the trace is the part  *)
(* of the token buffer strictly before the last occurrence of the trimmed  *)
(* content, and empty when the content does not occur; with a blank        *)
(* content it is the trimmed buffer.                                       *)
TraceRule ==
  \A t \in Turns : Committed(t) =>
    LET buf == turns[t].streamedText
        c == Trim(Last(messages).content)
    IN Last(messages).thinking_trace =
         IF c # <<>>
         THEN IF Found(buf, c) THEN BeforeLast(buf, c) ELSE <<>>
         ELSE Trim(buf)

(* C17, amended: the part before the last occurrence is trimmed as well.   *)
TraceRuleTrimmed ==
  \A t \in Turns : Committed(t) =>
    LET buf == turns[t].streamedText
        c == Trim(Last(messages).content)
    IN Last(messages).thinking_trace =
         IF c # <<>>
         THEN IF Found(buf, c) THEN Trim(BeforeLast(buf, c)) ELSE <<>>
         ELSE Trim(buf)

(* the content occurs twice in the buffer and the trace runs up to the     *)
(* second occurrence                                                       *)
TraceWitness ==
  \E t \in Turns :
    /\ Committed(t) /\ turns[t].streamedText = <<"A", "T", "A">>
    /\ Last(messages).content = <<"A">>
    /\ Last(messages).thinking_trace = <<"A", "T">>

----------------------------------------------------------------------------
(* Events that are not terminal.                                           *)

(* what a step dispatches in turn t *)
NewEvents(t) ==
  SubSeq(turns'[t].dispatched, Len(turns[t].dispatched) + 1,
         Len(turns'[t].dispatched))

(* a read of turn t that dispatches status and token events only and      *)
(* leaves the stream open                                                  *)
TransientStep(t) ==
  /\ turns[t].pc = "reading" /\ turns'[t].pc = "reading"
  /\ NewEvents(t) # <<>> /\ NoTerminal(NewEvents(t))

(* C20: status and token events change the status text and the streaming   *)
(* text only: the history, the conversation identifier, the share token    *)
(* and the sending flag stay as they are.                                  *)
TransientOnly ==
  [][\A t \in Turns :
       TransientStep(t) =>
         UNCHANGED <<messages, msgsChanged, isSending, activeConversationId,
                     shareToken, activeConversationIdRef, model, saves>>]_vars

(* a status and a token have been shown, the turn is still reading and     *)
(* the history is the one of the submission                                *)
TransientWitness ==
  \E t \in Turns :
    /\ turns[t].pc = "reading" /\ isSending
    /\ statusMessage # <<>> /\ streamingText # <<>>
    /\ Len(turns[t].dispatched) = 2 /\ messages = turns[t].next

----------------------------------------------------------------------------
(* Tool outputs.                                                           *)

(* the final event of turn t, once dispatched *)
FinalOf(t) ==
  LET d == turns[t].dispatched
      i == CHOOSE i \in 1..Len(d) : d[i].kind = "final"
  IN JsonValue[d[i].json]

(* the response left out the output of a tool call *)
Truncated(calls) == \E i \in 1..Len(calls) : calls[i] = "tc-truncated"

(* C21: when the final event of a turn carries tool calls whose outputs    *)
(* were left out and a request identifier, the turn sends exactly one      *)
(* request for the full tool outputs.                                      *)
ToolOutputsFetched ==
  \A t \in Turns :
    (/\ turns[t].gotFinal
     /\ Truncated(FinalOf(t).tool_calls)
     /\ FinalOf(t).request_id # None)
    => Cardinality({i \in 1..Len(RequestsOf(t)) :
                      RequestsOf(t)[i] = "GET /tool-outputs"}) = 1

----------------------------------------------------------------------------
(* Actions of the user while a turn is in flight.                          *)

(* turn t commits a message (the answer or the error) in this step *)
Commits(t) == turns'[t].commits > turns[t].commits

Holds(ms, m) == \E i \in 1..Len(ms) : ms[i] = m

(* C22: when a turn commits after the user has replaced its conversation   *)
(* (New conversation, a load, a switch of the account), the history after  *)
(* the commit does not hold the question of that turn, which the action    *)
(* discarded.                                                              *)
ActionNotUndone ==
  [][\A t \in Turns :
       (Commits(t) /\ turns[t].conv # conv)
         => ~Holds(messages', UserMessage(turns[t].content))]_vars

(* the response of save request i arrives in this step *)
Answered(i) == i \in 1..Len(saves) /\ saves' = RemoveAt(saves, i)

(* C23: the response of a save issued for a conversation the user has left *)
(* since (New conversation, a load, a switch of the account) sets neither  *)
(* the active conversation identifier nor the share token.                 *)
StaleSaveIgnored ==
  [][\A i \in 1..Len(saves) :
       (Answered(i) /\ saves[i].conv # conv)
         => /\ activeConversationId' = activeConversationId
            /\ shareToken' = shareToken]_vars

(* the logical conversation a question was asked in: the stored            *)
(* conversation for its question, the conversation of the turn otherwise   *)
OwnerOf(content) ==
  IF content = <<"Q0">> THEN Stored0.conv
  ELSE turns[CHOOSE t \in Turns : content = <<Questions[t]>>].conv

(* every question of ms was asked in conversation c *)
QuestionsOf(ms, c) ==
  \A i \in 1..Len(ms) : ms[i].role = "user" => OwnerOf(ms[i].content) = c

(* C24: a save request that supplies the identifier of a record carries    *)
(* the questions of the logical conversation that record belongs to and    *)
(* the account of the record; no record is rewritten with the questions of *)
(* another conversation or with another account.                           *)
RecordIntegrity ==
  /\ [](\A i \in 1..Len(saves) :
         saves[i].conversation_id # 0 =>
           LET rec == store[saves[i].conversation_id]
           IN /\ saves[i].conv = rec.conv
              /\ QuestionsOf(saves[i].messages, rec.conv)
              /\ saves[i].account_id = rec.account_id)
  /\ [][\A k \in 1..Len(store) :
          /\ store'[k].conv = store[k].conv
          /\ store'[k].account_id = store[k].account_id
          /\ QuestionsOf(store'[k].messages, store[k].conv)]_vars

(* a save request is issued in this step *)
SaveIssued == Len(saves') > Len(saves)

(* C25: a save is issued only when no turn is between the append of its    *)
(* question and its commit, and the messages of the request end with the   *)
(* assistant message that was committed.                                   *)
SaveAfterCommit ==
  [][SaveIssued =>
       /\ \A t \in Turns : ~InFlight(t)
       /\ Last(saves'[Len(saves')].messages).role = "assistant"]_vars

----------------------------------------------------------------------------
(* Persistence of the answers: turns of a saved conversation whose streams *)
(* end with an answer, and saves that succeed.  The renderer runs a        *)
(* pending render and the server answers a pending save: weak fairness of  *)
(* these steps.  The user owes no submission, and while a turn is in       *)
(* flight nothing is owed to the history of the page.                      *)

(* streams of a status or token event and an answer *)
PersistTexts ==
  {Rec(kind, json, <<LF>>) \o Rec("final", fin, <<LF>>) :
     kind \in {"status"}, json \in {"{status}"}, fin \in FinalMenu}
  \cup {Rec("token", tok, <<LF>>) \o Rec("final", "{finalAB}", <<LF>>) :
           tok \in TokenMenu}

Delivery ==
  \/ \E t \in Turns : \E body \in PersistTexts : FetchOk(t, body)
  \/ \E t \in Turns : ServerChunk(t)
  \/ \E t \in Turns : ServerClose(t)

SaveAnswers == \E i \in 1..Len(saves) : SaveOk(i)

NextPersist ==
  \/ Submit
  \/ Render
  \/ Delivery
  \/ SaveAnswers

SpecPersist ==
  /\ InitStream /\ [][NextPersist]_vars
  /\ WF_vars(Render) /\ WF_vars(SaveAnswers)

(* the page shows a history that ends with an assistant message, no turn   *)
(* is in flight                                                            *)
AnswerShown ==
  ~isSending /\ messages # <<>> /\ Last(messages).role = "assistant"

(* the record of the active conversation holds the history of the page *)
Persisted ==
  activeConversationId # 0 /\ store[activeConversationId].messages = messages

(* C26: with an account selected and saves that succeed, a committed       *)
(* assistant message is eventually in the record of the conversation,      *)
(* also when it was committed while an earlier save was pending; no        *)
(* further turn is needed (the last turn of a behaviour has none).         *)
EventualPersistence == [](AnswerShown => <>(Persisted \/ isSending))

----------------------------------------------------------------------------
(* Termination of a turn.  The abort timer is started with the request     *)
(* and cleared only when sendMessageStream is left, so it fires while the  *)
(* turn is in flight; an aborted fetch or read rejects; the renderer runs  *)
(* a pending render.  Nothing is assumed of the channel.                   *)

TimerFires == \E t \in Turns : AbortTimer(t)

AbortSettles == \E t \in Turns : AbortRejects(t)

SpecTurn ==
  /\ InitStream /\ [][NextStream]_vars
  /\ WF_vars(Render) /\ WF_vars(TimerFires) /\ WF_vars(AbortSettles)

(* C27: a submission that was accepted returns the controller to Idle:     *)
(* the sending flag is reset, and the page accepts the next submission.    *)
TurnReturnsToIdle == isSending ~> (~isSending /\ InputAccepts(view))

(* the second turn was aborted by the timer and has settled, and the page  *)
(* accepts a submission again                                              *)
TurnIdleWitness ==
  /\ nTurns = 2 /\ turns[2].pc = "settled" /\ turns[2].aborted
  /\ ~isSending /\ InputAccepts(view)

----------------------------------------------------------------------------
(* The account of a chat request.                                          *)

(* C28: a chat request is sent only after an activation has succeeded, and *)
(* it carries the account of the activation that succeeded last (the one   *)
(* onSuccess has written to localStorage).                                 *)
RequestCarriesActivated ==
  [][nTurns' > nTurns =>
       (activated /\ turns'[nTurns'].account_id = localStorage)]_vars

----------------------------------------------------------------------------
(* Reloads of the account list under a saved conversation: the accounts    *)
(* query refetches and answers with any list, the empty one included.      *)

MaxRefetch == 3

Refetched == nFetches < MaxRefetch /\ \E d \in BootResponses : Loaded(d)

NextReload ==
  \/ Refetched
  \/ Render
  \/ Submit
  \/ Delivery
  \/ SaveAnswers

SpecReload == InitStream /\ [][NextReload]_vars

(* the account-switch effect has reset the conversation in this step *)
ResetFired == lastAccountIdRef' # lastAccountIdRef

(* C29: the ref of the account-switch effect is the last account that was  *)
(* rendered and not null; a render whose account is null or is that        *)
(* account (also after null readings in between) leaves the ref, the       *)
(* messages, the conversation identifier and the share token as they are;  *)
(* the reset fires only in a render whose account is not null and differs  *)
(* from the last one that was not null.                                    *)
NullReadingsIgnored ==
  /\ [](view.accountId # None => lastAccountIdRef = view.accountId)
  /\ [][(view'.accountId # view.accountId
           /\ view'.accountId \in {None, lastAccountIdRef})
        => /\ lastAccountIdRef' = lastAccountIdRef
           /\ messages' = messages
           /\ activeConversationId' = activeConversationId
           /\ shareToken' = shareToken]_vars
  /\ [][ResetFired =>
          /\ view'.accountId \notin {None, lastAccountIdRef}
          /\ lastAccountIdRef' = view'.accountId
          /\ messages' = <<>>
          /\ activeConversationId' = 0 /\ shareToken' = 0]_vars

(* account acc1 was rendered, then no account while the list reloaded to   *)
(* the empty one; the list holds acc1 again and its render is due; the     *)
(* saved conversation is still on the page                                 *)
NullReadingWitness ==
  /\ nFetches = MaxRefetch /\ sync = "accounts"
  /\ lastAccountIdRef = "acc1" /\ view.accountId = None
  /\ Snapshot.accountId = "acc1"
  /\ messages = History1 /\ activeConversationId = 2 /\ shareToken = 2

----------------------------------------------------------------------------
(* The order of the events of a turn: streams of status and token records  *)
(* (token texts with line endings, and an empty one) that end with an      *)
(* answer, delivered in chunks of any size.                                *)

TokenRecords ==
  {<<"status", "{status}">>, <<"token", "{tokA}">>, <<"token", "{tokCr}">>,
   <<"token", "{tokLf}">>, <<"token", "{tok0}">>}

TokenTexts ==
  {TextOf(recs, <<LF>>) \o Rec("final", "{finalA}", <<LF>>) :
     recs \in UNION {[1..n -> TokenRecords] : n \in 0..MaxTokens}}

NextTokens ==
  \/ Submit
  \/ Render
  \/ \E t \in Turns : \E body \in TokenTexts : FetchOk(t, body)
  \/ \E t \in Turns : WireChunk(t)
  \/ \E t \in Turns : ServerClose(t)

SpecTokens == InitStream /\ [][NextTokens]_vars

(* the length of a record of these streams *)
RecLen == Len(Rec("token", "{tokA}", <<LF>>))

(* the records that are complete in the text s, in the order of s *)
RecordsIn(s) ==
  [k \in 1..(Len(s) \div RecLen) |->
     [kind |-> s[RecLen * (k - 1) + 3], json |-> s[RecLen * (k - 1) + 7]]]

(* what turn t has read of its stream *)
Arrived(t) ==
  SubSeq(turns[t].text, 1, Len(turns[t].text) - Len(turns[t].body))

(* a token without text has no callback *)
Dispatchable(ev) == ~(ev.kind = "token" /\ JsonValue[ev.json].text = <<>>)

(* the events dispatched by turn t are those of the complete records it    *)
(* has read, in their order                                                *)
InArrivalOrder(t) ==
  turns[t].dispatched = SelectSeq(RecordsIn(Arrived(t)), Dispatchable)

RECURSIVE RawTokens(_)
RawTokens(evs) ==
  IF evs = <<>> THEN <<>>
  ELSE (IF Head(evs).kind = "token" THEN JsonValue[Head(evs).json].text
        ELSE <<>>) \o RawTokens(Tail(evs))

RECURSIVE NormalizedTokens(_)
NormalizedTokens(evs) ==
  IF evs = <<>> THEN <<>>
  ELSE (IF Head(evs).kind = "token"
        THEN Normalize(JsonValue[Head(evs).json].text)
        ELSE <<>>) \o NormalizedTokens(Tail(evs))

(* C30: the events of a turn are dispatched in the order of the records    *)
(* of its stream, and at every point the token buffer is the               *)
(* concatenation, in that order, of the texts of the token events          *)
(* dispatched so far.                                                      *)
TokenBufferRaw ==
  \A t \in Turns :
    turns[t].pc # "unused" =>
      /\ InArrivalOrder(t)
      /\ turns[t].streamedText = RawTokens(turns[t].dispatched)

(* C30, with the line endings of each token text normalised to LF, as      *)
(* onToken does before it appends the text                                 *)
TokenBufferNormalized ==
  \A t \in Turns :
    turns[t].pc # "unused" =>
      /\ InArrivalOrder(t)
      /\ turns[t].streamedText = NormalizedTokens(turns[t].dispatched)

(* the stream is open, two token events were dispatched, the first with a  *)
(* carriage return in its text                                             *)
TokenOrderWitness ==
  /\ turns[2].pc = "reading" /\ ~turns[2].done
  /\ Len(turns[2].dispatched) = 2
  /\ turns[2].dispatched[1].json = "{tokCr}"
  /\ turns[2].dispatched[2].json = "{tokLf}"
  /\ turns[2].streamedText = <<"A", LF, LF, "B">>

----------------------------------------------------------------------------
(* The content of the answer.                                              *)

(* C31 as stated: the content of the committed message is the response     *)
(* text of the final event, or the token buffer when the response text is  *)
(* empty; with both empty the turn is answered with an empty message.      *)
ContentRule ==
  \A t \in Turns : Committed(t) =>
    /\ Last(messages).content =
         IF FinalOf(t).response # <<>> THEN FinalOf(t).response
         ELSE turns[t].streamedText
    /\ turns[t].pc = "settled" => turns[t].outcome = <<"answered">>

(* C31, with the line endings of the content normalised to LF, as onFinal  *)
(* does                                                                    *)
ContentRuleNormalized ==
  \A t \in Turns : Committed(t) =>
    /\ Last(messages).content =
         Normalize(IF FinalOf(t).response # <<>> THEN FinalOf(t).response
                   ELSE turns[t].streamedText)
    /\ turns[t].pc = "settled" => turns[t].outcome = <<"answered">>

(* a final event without response text after no token: the turn has        *)
(* settled as answered, with an assistant message of empty content         *)
EmptyAnswerWitness ==
  /\ Committed(2) /\ turns[2].pc = "settled"
  /\ FinalOf(2).response = <<>> /\ turns[2].streamedText = <<>>
  /\ Last(messages).content = <<>>
  /\ turns[2].outcome = <<"answered">>

----------------------------------------------------------------------------
(* The end of the input: streams whose last record, a terminal one, has    *)
(* lost the end of its separator (none, a part or all of the two line      *)
(* endings), after at most one other record, in each newline convention    *)
(* and in chunks of any size.                                              *)

LeadRecords == {<<>>, <<<<"status", "{status}">>>>, <<<<"token", "{tokT}">>>>}

TerminalRecords == {<<"final", "{finalA}">>, <<"error", "{err}">>}

(* s without its last n characters *)
DropLast(s, n) == SubSeq(s, 1, Len(s) - n)

FlushTexts ==
  UNION {{DropLast(TextOf(lead \o <<term>>, nl), cut) :
            lead \in LeadRecords, term \in TerminalRecords,
            cut \in 0..(2 * Len(nl))} : nl \in Newlines}

NextFlush ==
  \/ Submit
  \/ Render
  \/ \E t \in Turns : \E body \in FlushTexts : FetchOk(t, body)
  \/ \E t \in Turns : WireChunk(t)
  \/ \E t \in Turns : ServerClose(t)

SpecFlush == InitStream /\ [][NextFlush]_vars

(* C32: when the channel has closed, the terminal record of the stream was *)
(* dispatched, also when its separator was missing or incomplete.          *)
FlushAtClose ==
  \A t \in Turns :
    turns[t].pc = "settled" =>
      \E i \in 1..Len(turns[t].dispatched) : Terminal(turns[t].dispatched[i])

----------------------------------------------------------------------------
(* Records whose payload is not JSON: streams of up to MaxRecords + 1      *)
(* records, some of them with the payload "{bad", in chunks of any size.   *)

GarbledRecords ==
  {<<"token", "{tokT}">>, <<"final", "{finalA}">>, <<"error", "{err}">>,
   <<"token", "{bad">>, <<"final", "{bad">>}

GarbledTexts ==
  {TextOf(recs, <<LF>>) :
     recs \in UNION {[1..n -> GarbledRecords] : n \in 0..(MaxRecords + 1)}}

NextGarbled ==
  \/ Submit
  \/ Render
  \/ \E t \in Turns : \E body \in GarbledTexts : FetchOk(t, body)
  \/ \E t \in Turns : WireChunk(t)
  \/ \E t \in Turns : ServerClose(t)

SpecGarbled == InitStream /\ [][NextGarbled]_vars

(* the payload of the record is JSON *)
WellFormed(ev) == ev.json \in DOMAIN JsonValue

(* the events up to the first error event, which ends the decoding *)
RECURSIVE UpToError(_)
UpToError(evs) ==
  IF evs = <<>> THEN <<>>
  ELSE IF Head(evs).kind = "error" THEN <<Head(evs)>>
  ELSE <<Head(evs)>> \o UpToError(Tail(evs))

(* C33: the events dispatched are those of the well-formed records read so *)
(* far, in their order, up to the first error event: a record whose        *)
(* payload is not JSON has no callback and stops nothing.  A stream that   *)
(* closes without a well-formed terminal record ends the turn with the     *)
(* error of a stream that ended early.                                     *)
MalformedDropped ==
  \A t \in Turns :
    turns[t].pc # "unused" =>
      /\ turns[t].dispatched =
           UpToError(SelectSeq(RecordsIn(Arrived(t)), WellFormed))
      /\ (turns[t].done /\ NoTerminal(turns[t].dispatched)) =>
           (turns[t].pc = "settled" /\ turns[t].outcome = StreamEnded)

(* a token record and a final record with payloads that are not JSON, then *)
(* a well-formed final record: the answer is committed                     *)
MalformedWitness ==
  /\ turns[2].text = TextOf(<<<<"token", "{bad">>, <<"final", "{bad">>,
                              <<"final", "{finalA}">>>>, <<LF>>)
  /\ turns[2].pc = "settled"
  /\ turns[2].dispatched = <<[kind |-> "final", json |-> "{finalA}"]>>
  /\ turns[2].outcome = <<"answered">>

----------------------------------------------------------------------------
(* C34: at most one activation call is in flight at any time; while it is  *)
(* pending the session is not ready and the call is the one for the        *)
(* account selected last, and a ready session has no call in flight and    *)
(* has persisted the account selected last.                                *)
OneActivation ==
  /\ Len(inits) <= 1
  /\ inits # <<>> =>
       (initPending /\ ~isReady /\ inits[1] = selectedAccountId)
  /\ isReady =>
       (inits = <<>> /\ ~initPending /\ localStorage = selectedAccountId)

(* an activation pending after an earlier one succeeded, while a reload of *)
(* the list with another length has been rendered                          *)
PendingWitness ==
  /\ inits = <<"acc2">> /\ activated /\ localStorage = "acc1"
  /\ Accounts = <<"acc1">> /\ view = Snapshot /\ sync = None

----------------------------------------------------------------------------
(* C35: the request of a turn carries the history that preceded the        *)
(* submission, in order and reduced to role and content, the new user text *)
(* as the message, the selected model and the current account.             *)
Issued(t) == turns[t].pc = "unused" /\ turns'[t].pc # "unused"

RequestOfRender ==
  [][\A t \in Turns : Issued(t) =>
       /\ messages' = view.messages \o <<UserMessage(turns'[t].content)>>
       /\ Len(turns'[t].history) = Len(view.messages)
       /\ \A i \in 1..Len(view.messages) :
            turns'[t].history[i] =
              [role |-> view.messages[i].role,
               content |-> view.messages[i].content]
       /\ turns'[t].model = view.model
       /\ turns'[t].account_id = view.accountId]_vars

(* a second question issued after an answer that carries tool calls       *)
HistoryWitness ==
  /\ turns[2].pc = "fetching" /\ Len(turns[2].history) = 2
  /\ turns[2].base[2].role = "assistant"
  /\ turns[2].base[2].tool_calls # <<>>
  /\ turns[2].account_id # None

----------------------------------------------------------------------------
(* Saves of conversations whose first question is shorter than, as long    *)
(* as, or longer than the limit of a name, in a session whose account list *)
(* may reload.                                                             *)

QuestionLengths == {1, NameLimit - 1, NameLimit, NameLimit + 1}

QuestionTexts == {[i \in 1..n |-> "q"] : n \in QuestionLengths}

(* ChatInput.handleSend with the text typed *)
Ask == sync = None /\ InputAccepts(view) /\ \E c \in QuestionTexts : send(c)

(* a ready session on an empty conversation *)
InitSave ==
  /\ messages = <<>> /\ isSending = FALSE
  /\ statusMessage = <<>> /\ streamingText = <<>>
  /\ model = DefaultModel /\ activeConversationId = 0 /\ shareToken = 0
  /\ activeConversationIdRef = 0 /\ lastAccountIdRef = "acc1"
  /\ selectedAccountId = "acc1" /\ localStorage = "acc1"
  /\ isReady = TRUE /\ error = None
  /\ accountsData = [accounts |-> AccountIds, currentAccountId |-> "acc1"]
  /\ initPending = FALSE /\ isSaving = FALSE
  /\ view = Snapshot /\ msgsChanged = FALSE /\ sync = None
  /\ turns = [t \in Turns |-> NoTurn] /\ nTurns = 0
  /\ saves = <<>> /\ loads = <<>> /\ inits = <<>>
  /\ store = <<Stored0>>
  /\ conv = 1 /\ nConv = 1 /\ created = <<>> /\ nUser = 0 /\ nFetches = 1
  /\ lastFail = NoFail /\ activated = TRUE

SaveTexts ==
  {Rec("final", "{finalA}", <<LF>>), Rec("error", "{err}", <<LF>>)}

(* GET /accounts answers with an empty list *)
AccountsLost == nFetches < MaxLoads /\ Loaded(NoData)

NextSave ==
  \/ Ask
  \/ Render
  \/ \E t \in Turns : \E body \in SaveTexts : FetchOk(t, body)
  \/ \E t \in Turns : ServerChunk(t)
  \/ \E t \in Turns : ServerClose(t)
  \/ SaveAnswers
  \/ AccountsLost

SpecSave == InitSave /\ [][NextSave]_vars

(* C36: every save request carries the first user message cut to 60        *)
(* characters as its name, the current account, the model, the message     *)
(* list in memory when it is issued and the tool calls of the messages in  *)
(* message order; a save is issued only for a history with an assistant    *)
(* message and with an account selected.                                   *)
SaveCarries ==
  [][Len(saves') > Len(saves) =>
       LET r == Last(saves')
           q == messages[FirstUser(messages)].content
       IN /\ HasAssistant(messages) /\ EffectiveAccountId # None
          /\ FirstUser(messages) # 0
          /\ Len(r.name) = (IF Len(q) < 60 THEN Len(q) ELSE 60)
          /\ \A i \in 1..Len(r.name) : r.name[i] = q[i]
          /\ r.account_id = EffectiveAccountId /\ r.model = model
          /\ r.messages = messages
          /\ r.tool_calls = FlatToolCalls(messages)]_vars

(* a save of a conversation whose first question is longer than the limit  *)
CutNameWitness ==
  /\ saves # <<>> /\ Len(saves[1].messages[1].content) = NameLimit + 1
  /\ Len(saves[1].name) = NameLimit /\ saves[1].tool_calls # <<>>

----------------------------------------------------------------------------
(* Turns with every outcome, in a conversation the user may clear.         *)
NextIdle == NextStream \/ NewConversation

SpecIdle == InitStream /\ [][NextIdle]_vars

(* C37: whenever the controller is not sending, the status text is null    *)
(* and the streaming text is empty.                                        *)
IdleIsClear == ~isSending => (statusMessage = <<>> /\ streamingText = <<>>)

(* a turn that timed out after it had streamed text *)
IdleAfterTimeout ==
  /\ ~isSending /\ turns[2].pc = "settled" /\ turns[2].outcome = TimedOut
  /\ turns[2].streamedText # <<>>

----------------------------------------------------------------------------
(* Streams in which records without a field (a comment, blanks, nothing)   *)
(* stand before, between and after the records of events.                  *)

(* the content of a record that is ignored: a keep-alive comment, nothing, *)
(* a blank                                                                 *)
IgnoredContents == {<<COLON, "ka">>, <<>>, <<SP>>}

Comment(c) == c \o <<LF, LF>>

KeepAliveRecords ==
  {<<"token", "{tokT}">>, <<"final", "{finalA}">>, <<"error", "{err}">>}

ItemTexts ==
  {Rec(r[1], r[2], <<LF>>) : r \in KeepAliveRecords}
    \cup {Comment(c) : c \in IgnoredContents}

RECURSIVE Concat(_)
Concat(ss) == IF ss = <<>> THEN <<>> ELSE Head(ss) \o Concat(Tail(ss))

KeepAliveTexts ==
  {Concat(items) :
     items \in UNION {[1..n -> ItemTexts] : n \in 0..(MaxRecords + 1)}}

NextKeepAlive ==
  \/ Submit
  \/ Render
  \/ \E t \in Turns : \E body \in KeepAliveTexts : FetchOk(t, body)
  \/ \E t \in Turns : WireChunk(t)
  \/ \E t \in Turns : ServerClose(t)

SpecKeepAlive == InitStream /\ [][NextKeepAlive]_vars

(* the events of the complete records of events in s, the ignored records  *)
(* left out                                                                *)
RECURSIVE EventRecordsIn(_)
EventRecordsIn(s) ==
  IF s = <<>> THEN <<>>
  ELSE IF \E c \in IgnoredContents : IsPrefix(Comment(c), s)
       THEN LET c == CHOOSE d \in IgnoredContents : IsPrefix(Comment(d), s)
            IN EventRecordsIn(SubSeq(s, Len(Comment(c)) + 1, Len(s)))
       ELSE IF Len(s) < RecLen \/ s[1] # EVENT THEN <<>>
            ELSE <<[kind |-> s[3], json |-> s[7]]>>
                   \o EventRecordsIn(SubSeq(s, RecLen + 1, Len(s)))

(* C38: records with empty or comment-only content are ignored: the events *)
(* dispatched are those of the other records read so far, in their order,  *)
(* up to the first error event, wherever the ignored records stand.        *)
CommentsIgnored ==
  \A t \in Turns :
    turns[t].pc # "unused" =>
      turns[t].dispatched = UpToError(EventRecordsIn(Arrived(t)))

(* a keep-alive comment between a token record and the final record: the   *)
(* answer is committed                                                     *)
KeepAliveWitness ==
  /\ turns[2].text = Rec("token", "{tokT}", <<LF>>) \o Comment(<<COLON, "ka">>)
                       \o Rec("final", "{finalA}", <<LF>>)
  /\ turns[2].pc = "settled"
  /\ turns[2].dispatched = <<[kind |-> "token", json |-> "{tokT}"],
                             [kind |-> "final", json |-> "{finalA}"]>>
  /\ turns[2].outcome = <<"answered">>

====
